---- MODULE Spec2Model ----
(***************************************************************************)
(* Model of the MiV-OS abnormality-detection pipeline:                     *)
(*   miv/signal/spike/cutout.py            SpikeCutout, ChannelSpikeCutout *)
(*   miv/signal/events/abnormality_detection.py   AbnormalityDetector      *)
(*                                                                         *)
(* Every public method is one action.  A Python exception is an outcome of *)
(* the action: the fields assigned before the raise keep their new values, *)
(* the others are unchanged, and the exception's type is recorded in       *)
(* call.error.  Channel indices are 0-based as in the code; TLA+ sequences *)
(* are 1-based, so channel c is element c + 1 of a list.                   *)
(***************************************************************************)
EXTENDS Integers, Sequences, FiniteSets, TLC

\* ------------------------------------------------------------------ bounds
\* Most channels of a recording.
MaxChannels == 2
\* Most spikes the spike detector finds on one channel.
MaxSpikes == 1
\* Largest extractor_decomposition_parameter (feature-extractor rank).
MaxRank == 2
\* Longest category list handed to ChannelSpikeCutout.categorize.
MaxCodes == 3
\* Most cutouts of a stand-alone ChannelSpikeCutout.
MaxCutouts == 2
\* Most channels of the Spikestamps object that is extended, and of the one
\* it is extended with.
MaxSelfChannels == 2
MaxOtherChannels == 4

\* ------------------------------------------------------- program constants
\* SpikeCutout.__init__(self, cutout, sampling_rate, pca_comp_index)
SpikeCutoutInitParams == 3
\* int(self.model_size * 0.8), as the exact fraction 4/5
SplitNumerator == 4
SplitDenominator == 5

CATEGORY_NAMES == <<"uncategorized", "neuronal", "false", "mixed">>

\* Category codes a caller may give: indices of CATEGORY_NAMES.
Codes == 0..(Len(CATEGORY_NAMES) - 1)

\* ------------------------------------------------------------ Python values
\* Optional[...] arguments: None, a numpy array or a plain list.
None == [kind |-> "None", v |-> <<>>]
NdArray(s) == [kind |-> "ndarray", v |-> s]
PyList(s) == [kind |-> "list", v |-> s]
PyInt(n) == [kind |-> "int", v |-> n]

Range(s) == {s[i] : i \in DOMAIN s}

RECURSIVE SumSeq(_)
SumSeq(s) == IF s = <<>> THEN 0 ELSE Head(s) + SumSeq(Tail(s))

\* All sequences over S of length 0..n.
SeqsUpTo(S, n) == UNION {[1..k -> S] : k \in 0..n}

\* np.zeros(n)
Zeros(n) == [i \in 1..n |-> 0]

\* Number of scalars in an array: a 1-D array of numbers, or a 2-D array
\* given as a sequence of rows.
ArraySize(s, two_d) == IF two_d THEN SumSeq([i \in DOMAIN s |-> Len(s[i])]) ELSE Len(s)

\* The outcomes of bool(x) for an Optional argument x.  None is False and a
\* list is truthy iff non-empty.  A numpy array of one element has the truth
\* value of that element, an array of several elements raises ValueError,
\* and an empty array is False (with a deprecation warning) or raises
\* ValueError, depending on the numpy release.
Truthiness(x, two_d) ==
    IF x.kind = "None" THEN {"False"}
    ELSE IF x.kind = "list" THEN {IF Len(x.v) > 0 THEN "True" ELSE "False"}
    ELSE IF ArraySize(x.v, two_d) = 0 THEN {"False", "ValueError"}
    ELSE IF ArraySize(x.v, two_d) > 1 THEN {"ValueError"}
    ELSE LET e == IF two_d THEN (CHOOSE r \in Range(x.v) : Len(r) = 1)[1] ELSE x.v[1]
         IN  {IF e # 0 THEN "True" ELSE "False"}

\* ------------------------------------------------------------- SpikeCutout
NoObject == [cutout |-> <<>>, sampling_rate |-> 0, pca_comp_index |-> 0]

\* SpikeCutout(*args): the constructor takes exactly three positional
\* arguments and stores them; any other number of arguments is a TypeError.
SpikeCutoutNew(args) ==
    IF Len(args) # SpikeCutoutInitParams
    THEN [error |-> "TypeError", obj |-> NoObject]
    ELSE [error |-> "none",
          obj |-> [cutout |-> args[1], sampling_rate |-> args[2],
                   pca_comp_index |-> args[3]]]

\* The attributes a SpikeCutout object has (there is no "time").
HasAttr(obj, name) == name \in DOMAIN obj

\* ------------------------------------------------------ ChannelSpikeCutout
\* ChannelSpikeCutout.__init__: the outcomes for an initial categorization
\* list cl; bool(cl) decides categorized.
ChannelSpikeCutoutInit(cutouts, num_components, channel_index, cl) ==
    {IF t = "ValueError"
     THEN [error |-> "ValueError", obj |-> NoObject]
     ELSE [error |-> "none",
           obj |-> [cutouts |-> cutouts,
                    num_components |-> num_components,
                    channel_index |-> channel_index,
                    categorized |-> (t = "True"),
                    categorization_list |->
                        IF t = "True" THEN cl.v ELSE Zeros(num_components)]]
     : t \in Truthiness(cl, FALSE)}

\* ChannelSpikeCutout(cutouts, num_components, channel_index): no initial list.
NewChannel(cutouts, num_components, channel_index) ==
    (CHOOSE r \in ChannelSpikeCutoutInit(cutouts, num_components, channel_index, None) :
        TRUE).obj

CategorizeKeepMutant(ch, category_index) ==
    IF Len(category_index) < ch.num_components
    THEN ch
    ELSE [ch EXCEPT !.categorization_list = category_index,
                    !.categorized = TRUE]

CategorizeShortMutant(ch, category_index) ==
    IF Len(category_index) <= ch.num_components
    THEN [ch EXCEPT !.categorization_list = Zeros(ch.num_components),
                    !.categorized = FALSE]
    ELSE [ch EXCEPT !.categorization_list = category_index,
                    !.categorized = TRUE]

\* ChannelSpikeCutout.categorize
Categorize(ch, category_index) ==
    IF Len(category_index) < ch.num_components
    THEN [ch EXCEPT !.categorization_list = Zeros(ch.num_components),
                    !.categorized = FALSE]
    ELSE [ch EXCEPT !.categorization_list = category_index,
                    !.categorized = TRUE]

GetLabeledCutoutsMutant(ch) ==
    [error |-> "none",
     labels |-> [i \in DOMAIN ch.cutouts |->
                    IF ch.cutouts[i].pca_comp_index + 1 \in DOMAIN ch.categorization_list
                    THEN ch.categorization_list[ch.cutouts[i].pca_comp_index + 1]
                    ELSE 0],
     labeled_cutouts |-> ch.cutouts,
     size |-> Len(ch.cutouts)]

\* ChannelSpikeCutout.get_labeled_cutouts.  Line 122 indexes
\* categorization_list with the cutout's component index: a list without
\* that entry raises IndexError and nothing is returned.
GetLabeledCutouts(ch) ==
    IF ~ch.categorized
    THEN [error |-> "none", labels |-> <<>>, labeled_cutouts |-> <<>>, size |-> 0]
    ELSE IF \E i \in DOMAIN ch.cutouts :
               ch.cutouts[i].pca_comp_index + 1 \notin DOMAIN ch.categorization_list
    THEN [error |-> "IndexError", labels |-> <<>>, labeled_cutouts |-> <<>>, size |-> 0]
    ELSE [error |-> "none",
          labels |-> [i \in DOMAIN ch.cutouts |->
                         ch.categorization_list[ch.cutouts[i].pca_comp_index + 1]],
          labeled_cutouts |-> ch.cutouts,
          size |-> Len(ch.cutouts)]

GetCutoutsByComponentMutant(ch) ==
    [k \in 1..ch.num_components |->
        LET bucket == SelectSeq(ch.cutouts, LAMBDA c : c.pca_comp_index = k - 1)
        IN  [j \in DOMAIN bucket |-> bucket[Len(bucket) + 1 - j]]]

\* ChannelSpikeCutout.get_cutouts_by_component
GetCutoutsByComponent(ch) ==
    [k \in 1..ch.num_components |->
        SelectSeq(ch.cutouts, LAMBDA c : c.pca_comp_index = k - 1)]

\* ------------------------------------------------- collaborators (stubs)
\* A recording is given by what the spike detector finds in it: counts[c + 1]
\* is the number of spikes detected on channel c.  The injected filter,
\* detector, waveform extraction and feature extractor are deterministic
\* stand-ins.

\* data.load(): the sampling rate of the recording.
SamplingRate == 30000

\* spike_detector(sig, times, samp)[chan_index][cutout_index]: spike times of
\* a channel come in increasing order.
SpikeTime(chan_index, cutout_index) == cutout_index + 1

\* extract_waveforms(sig, spikes, chan_index, samp)[cutout_index]: one
\* two-sample waveform per detected spike, of two alternating shapes.
RawCutout(chan_index, cutout_index) ==
    IF (chan_index + cutout_index) % 2 = 0 THEN <<1, 0>> ELSE <<0, 1>>

\* spike_feature_extractor.project(rank, raw_cutouts)[0][cutout_index]: a
\* component label in 0..rank-1, determined by the waveform.
ProjectLabel(rank, raw_cutout) == raw_cutout[1] % rank

\* Recordings with up to MaxChannels channels of up to MaxSpikes spikes.
Recordings == SeqsUpTo(0..MaxSpikes, MaxChannels)

\* extractor_decomposition_parameter: a positive number of components.
Ranks == 1..MaxRank

\* np.mean(rows, axis=0) kept exact: the element-wise sum and the row count.
\* A single waveform w is MeanOf(<<w>>).
RECURSIVE VecSum(_)
VecSum(rows) ==
    IF Len(rows) = 1 THEN rows[1]
    ELSE [j \in DOMAIN rows[1] |-> rows[1][j] + VecSum(Tail(rows))[j]]

MeanOf(rows) == [sum |-> IF rows = <<>> THEN <<>> ELSE VecSum(rows), n |-> Len(rows)]

\* prob_model.predict(x)[0] for a trained classifier followed by Softmax: a
\* probability per class index, in tenths.  The stand-in classifier puts
\* 0.9 on class 1 when the first sample of x is at least 1/2, and 0.9 on
\* class 0 otherwise.
PredictRow(x) ==
    IF 2 * x.sum[1] >= x.n THEN <<0, 9, 1>> ELSE <<9, 1, 0>>

\* accuracy_threshold values a caller gives, in tenths.
Thresholds == {5, 9}

\* model.evaluate(data, labels): the (loss, accuracy) of the stand-in
\* classifier, which tells the evaluations of different data apart.
ModelEvaluate(data, labels) == <<Len(data) + 2, Len(labels) + 2>>

\* ------------------------------------------- AbnormalityDetector._get_cutouts
\* Lines 94-110: the SpikeCutout objects of one channel with enough spikes.
\* The first constructor call that raises ends the loop.
ChannelCutoutsList(counts, rank, chan_index) ==
    LET n == counts[chan_index + 1]
        made == [i \in 1..n |->
                    SpikeCutoutNew(<<RawCutout(chan_index, i - 1),
                                     SamplingRate,
                                     ProjectLabel(rank, RawCutout(chan_index, i - 1)),
                                     SpikeTime(chan_index, i - 1)>>)]
    IN  IF \E i \in 1..n : made[i].error # "none"
        THEN [error |-> made[CHOOSE i \in 1..n :
                                 /\ made[i].error # "none"
                                 /\ \A j \in 1..(i - 1) : made[j].error = "none"].error,
              list |-> <<>>]
        ELSE [error |-> "none", list |-> [i \in 1..n |-> made[i].obj]]

\* Line 90-93: does the channel have enough spikes for the extractor?
EnoughSpikes(count, rank) == count >= rank

\* Lines 89-127: the loop over the channels from chan_index on.  An exception
\* leaves self.skipped_channels as filled so far and returns no list.
RECURSIVE GetCutoutsLoop(_, _, _, _, _)
GetCutoutsLoop(counts, rank, chan_index, exp_cutouts, skipped) ==
    IF chan_index >= Len(counts)
    THEN [error |-> "none", exp_cutouts |-> exp_cutouts, skipped_channels |-> skipped]
    ELSE IF EnoughSpikes(counts[chan_index + 1], rank)
    THEN LET built == ChannelCutoutsList(counts, rank, chan_index)
         IN  IF built.error # "none"
             THEN [error |-> built.error, exp_cutouts |-> <<>>,
                   skipped_channels |-> skipped]
             ELSE GetCutoutsLoop(counts, rank, chan_index + 1,
                      Append(exp_cutouts, NewChannel(built.list, rank, chan_index)),
                      skipped)
    ELSE GetCutoutsLoop(counts, rank, chan_index + 1,
             Append(exp_cutouts, NewChannel(<<>>, rank, chan_index)),
             Append(skipped, chan_index))

\* _get_cutouts(data, ...): sets num_channels, resets skipped_channels, then
\* runs the loop.
GetCutouts(counts, rank) ==
    [num_channels |-> Len(counts)] @@ GetCutoutsLoop(counts, rank, 0, <<>>, <<>>)

\* ------------------------------------------------------------------- state
VARIABLES
    phase,                              \* "new", "ready" (constructed), "dead" (__init__ raised)
    extractor_decomposition_parameter,
    trained,
    categorized,
    model,
    skipped_channels,
    test_cutouts,
    test_labels,
    model_size,
    num_channels,
    spontaneous_cutouts,
    call,                               \* the last call on the detector: its
                                        \* arguments, the exception raised,
                                        \* the value returned, the classifier
                                        \* calls made and, for a call that
                                        \* extracts cutouts, what
                                        \* _get_cutouts returned
    csc,                                \* a stand-alone ChannelSpikeCutout
    csc_call,                           \* the last call on csc
    spikestamps,                        \* the data of a Spikestamps object
    other,                              \* the data of a second Spikestamps
    stamps_call                         \* the last call on spikestamps

detector == <<extractor_decomposition_parameter, trained, categorized, model,
              skipped_channels, test_cutouts, test_labels, model_size,
              num_channels, spontaneous_cutouts>>
channel_vars == <<csc, csc_call>>
stamp_vars == <<spikestamps, other, stamps_call>>
vars == <<phase, detector, call, channel_vars, stamp_vars>>

NoCall == [op |-> "none", args |-> <<>>, error |-> "none", result |-> <<>>,
           invoked |-> <<>>]

NoModel == [kind |-> "unset", layers |-> <<>>]

\* No stand-alone channel object yet.
NoChannel == [cutouts |-> <<>>, num_components |-> 0, channel_index |-> 0,
              categorized |-> FALSE, categorization_list |-> <<>>]

\* Before AbnormalityDetector(...) is called.
Init ==
    /\ phase = "new"
    /\ extractor_decomposition_parameter = 0
    /\ trained = FALSE
    /\ categorized = FALSE
    /\ model = NoModel
    /\ skipped_channels = <<>>
    /\ test_cutouts = <<>>
    /\ test_labels = <<>>
    /\ model_size = 0
    /\ num_channels = 0
    /\ spontaneous_cutouts = <<>>
    /\ call = NoCall
    /\ csc = NoChannel
    /\ csc_call = NoCall
    /\ spikestamps = <<>>
    /\ other = <<>>
    /\ stamps_call = NoCall

\* AbnormalityDetector.__init__(spontaneous_data, ..., rank)
Construct(counts, rank) ==
    /\ phase = "new"
    /\ LET r == GetCutouts(counts, rank)
       IN  /\ extractor_decomposition_parameter' = rank
           /\ trained' = FALSE
           /\ categorized' = FALSE
           /\ model' = NoModel
           /\ test_cutouts' = <<>>
           /\ test_labels' = <<>>
           /\ model_size' = 0
           /\ num_channels' = r.num_channels
           /\ skipped_channels' = r.skipped_channels
           /\ spontaneous_cutouts' = r.exp_cutouts
           /\ phase' = IF r.error = "none" THEN "ready" ELSE "dead"
           /\ call' = [op |-> "__init__", args |-> [counts |-> counts, rank |-> rank],
                       error |-> r.error, result |-> r.exp_cutouts, invoked |-> <<>>,
                       extracted |-> [error |-> r.error, exp_cutouts |-> r.exp_cutouts]]
    /\ UNCHANGED <<channel_vars, stamp_vars>>

\* Caller-supplied categorizations: rows of category codes per channel,
\* shorter than, as long as and longer than the channels' component count.
CategoryRows == {<<>>, <<1>>, <<3, 2>>}
CategorizationLists == SeqsUpTo(CategoryRows, MaxChannels)

RECURSIVE CategorizeRowsMutant(_, _, _)
CategorizeRowsMutant(chs, categorization_list, chan_index) ==
    IF chan_index >= Len(categorization_list)
    THEN [error |-> "none", cutouts |-> chs]
    ELSE IF chan_index >= Len(chs)
    THEN [error |-> "IndexError", cutouts |-> chs]
    ELSE IF Len(categorization_list[chan_index + 1]) < chs[chan_index + 1].num_components
    THEN [error |-> "ValueError", cutouts |-> chs]
    ELSE CategorizeRowsMutant(
             [chs EXCEPT ![chan_index + 1] =
                 Categorize(chs[chan_index + 1], categorization_list[chan_index + 1])],
             categorization_list, chan_index + 1)

\* Lines 143-144: rows chan_index.. of the list applied to the channels.  A
\* row with no channel is an IndexError; the channels categorized before it
\* keep their new state.
RECURSIVE CategorizeRows(_, _, _)
CategorizeRows(chs, categorization_list, chan_index) ==
    IF chan_index >= Len(categorization_list)
    THEN [error |-> "none", cutouts |-> chs]
    ELSE IF chan_index >= Len(chs)
    THEN [error |-> "IndexError", cutouts |-> chs]
    ELSE CategorizeRows(
             [chs EXCEPT ![chan_index + 1] =
                 Categorize(chs[chan_index + 1], categorization_list[chan_index + 1])],
             categorization_list, chan_index + 1)

CategorizeSpontaneousMutant(categorization_list) ==
    /\ phase = "ready"
    /\ LET r == CategorizeRows(spontaneous_cutouts, categorization_list, 0)
       IN  /\ spontaneous_cutouts' = r.cutouts
           /\ categorized' = (r.error = "none")
           /\ call' = [op |-> "categorize_spontaneous",
                       args |-> [categorization_list |-> categorization_list],
                       error |-> r.error, result |-> <<>>, invoked |-> <<>>]
    /\ UNCHANGED <<phase, extractor_decomposition_parameter, trained, model,
                   skipped_channels, test_cutouts, test_labels, model_size,
                   num_channels, channel_vars, stamp_vars>>

\* AbnormalityDetector.categorize_spontaneous(categorization_list)
CategorizeSpontaneous(categorization_list) ==
    /\ phase = "ready"
    /\ LET r == CategorizeRows(spontaneous_cutouts, categorization_list, 0)
       IN  /\ spontaneous_cutouts' = r.cutouts
           /\ categorized' = IF r.error = "none" THEN TRUE ELSE categorized
           /\ call' = [op |-> "categorize_spontaneous",
                       args |-> [categorization_list |-> categorization_list],
                       error |-> r.error, result |-> <<>>, invoked |-> <<>>]
    /\ UNCHANGED <<phase, extractor_decomposition_parameter, trained, model,
                   skipped_channels, test_cutouts, test_labels, model_size,
                   num_channels, channel_vars, stamp_vars>>

\* list(spike_cutout), line 173: SpikeCutout defines __init__ and __len__
\* only, so it is not iterable and list() raises TypeError.
ListOfSpikeCutout(spike_cutout) == [error |-> "TypeError", v |-> <<>>]

PoolSizeMutant(acc, lc) == acc.model_size + lc.size + 1

\* Line 175: self.model_size += channel_labeled_cutouts["size"]
PoolSize(acc, lc) == acc.model_size + lc.size

\* Lines 163-175: the labeled cutouts of the channels from position i on,
\* appended to acc.  A raise inside a channel's loop comes before that
\* channel's size is added, and after the label of the spike it stopped at
\* was appended (line 171 runs before line 173).
RECURSIVE AssemblePool(_, _, _)
AssemblePool(chs, i, acc) ==
    IF i > Len(chs) THEN [error |-> "none"] @@ acc
    ELSE LET lc == GetLabeledCutouts(chs[i])
             conv == [k \in 1..lc.size |-> ListOfSpikeCutout(lc.labeled_cutouts[k])]
         IN  IF lc.error # "none"
             THEN [error |-> lc.error] @@ acc
             ELSE IF \E k \in 1..lc.size : conv[k].error # "none"
             THEN LET bad == CHOOSE k \in 1..lc.size :
                                 /\ conv[k].error # "none"
                                 /\ \A j \in 1..(k - 1) : conv[j].error = "none"
                  IN  [error |-> "TypeError"] @@
                      [acc EXCEPT !.labeled_cutouts =
                                      @ \o [j \in 1..(bad - 1) |-> conv[j].v],
                                  !.labels = @ \o SubSeq(lc.labels, 1, bad)]
             ELSE AssemblePool(chs, i + 1,
                      [labeled_cutouts |-> acc.labeled_cutouts \o
                                              [k \in 1..lc.size |-> conv[k].v],
                       labels |-> acc.labels \o lc.labels,
                       model_size |-> PoolSize(acc, lc)])

\* Line 179: split = int(self.model_size * 0.8)
SplitIndex(size) == (size * SplitNumerator) \div SplitDenominator

\* xs[:k] and xs[k:]
Take(xs, k) == SubSeq(xs, 1, IF k < Len(xs) THEN k ELSE Len(xs))
Drop(xs, k) == SubSeq(xs, (IF k < Len(xs) THEN k ELSE Len(xs)) + 1, Len(xs))

\* Lines 186-192: the arguments of _create_default_model, or the IndexError
\* of spontaneous_cutouts[0], of .cutouts[0] or of labeled_cutouts[1].
\* np.shape of a list of L numbers is the tuple (L,).
DefaultModelArgs(chs, labeled_cutouts) ==
    IF Len(chs) = 0 THEN [error |-> "IndexError", layers |-> <<>>]
    ELSE IF Len(chs[1].cutouts) = 0 THEN [error |-> "IndexError", layers |-> <<>>]
    ELSE IF Len(labeled_cutouts) < 2 THEN [error |-> "IndexError", layers |-> <<>>]
    ELSE [error |-> "none",
          layers |-> << <<Len(labeled_cutouts[2])>>,
                        Len(chs[1].cutouts[1].cutout),
                        Len(CATEGORY_NAMES) - 1 >>]

\* AbnormalityDetector.train_model(model, epochs).  model_arg is "None" or
\* "supplied"; perm is the order sklearn's shuffle picks; fit_error is the
\* outcome of the classifier's fit ("none", or the error it raises).
\* call.labels is the local list `labels` as lines 166-175 left it.
TrainModel(model_arg, fit_error) ==
    /\ phase = "ready"
    /\ LET pool == AssemblePool(spontaneous_cutouts, 1,
                       [labeled_cutouts |-> <<>>, labels |-> <<>>, model_size |-> 0])
       IN  IF pool.error # "none"
           THEN /\ model_size' = pool.model_size
                /\ call' = [op |-> "train_model", args |-> [model |-> model_arg],
                            error |-> pool.error, result |-> <<>>, invoked |-> <<>>,
                            labels |-> pool.labels]
                /\ UNCHANGED <<test_cutouts, test_labels, model, trained>>
           ELSE \E perm \in Permutations(1..Len(pool.labels)) :
                LET labeled_cutouts == [k \in 1..Len(pool.labels) |->
                                           pool.labeled_cutouts[perm[k]]]
                    labels == [k \in 1..Len(pool.labels) |-> pool.labels[perm[k]]]
                    split == SplitIndex(pool.model_size)
                    train_cutouts == Take(labeled_cutouts, split)
                    train_labels == Take(labels, split)
                    dflt == DefaultModelArgs(spontaneous_cutouts, labeled_cutouts)
                    build_error == IF model_arg = "None" THEN dflt.error ELSE "none"
                    error == IF build_error # "none" THEN build_error ELSE fit_error
                IN  /\ model_size' = pool.model_size
                    /\ test_cutouts' = Drop(labeled_cutouts, split)
                    /\ test_labels' = Drop(labels, split)
                    /\ model' = IF build_error # "none" THEN model
                                ELSE IF model_arg = "None"
                                THEN [kind |-> "default", layers |-> dflt.layers]
                                ELSE [kind |-> "supplied", layers |-> <<>>]
                    /\ trained' = IF error = "none" THEN TRUE ELSE trained
                    /\ call' = [op |-> "train_model", args |-> [model |-> model_arg],
                                error |-> error,
                                result |-> [train_cutouts |-> train_cutouts,
                                            train_labels |-> train_labels],
                                invoked |-> IF build_error # "none" THEN <<>>
                                            ELSE <<[method |-> "fit",
                                                    x |-> train_cutouts,
                                                    y |-> train_labels]>>,
                                labels |-> pool.labels]
    /\ UNCHANGED <<phase, extractor_decomposition_parameter, categorized,
                   skipped_channels, num_channels, spontaneous_cutouts,
                   channel_vars, stamp_vars>>

\* Test data a caller may hand to evaluate_model: None, or numpy arrays (a
\* 2-D array of cutout rows, a 1-D array of labels).
TestCutoutArgs == {None, NdArray(<<>>), NdArray(<< <<1>> >>),
                   NdArray(<< <<1, 0>>, <<0, 1>> >>)}
TestLabelArgs == {None, NdArray(<<0>>), NdArray(<<1, 2>>)}

EvaluateUntrainedMutant == [test_loss |-> 0, test_accuracy |-> 1]

\* Line 223: the result of evaluate_model on an untrained detector.
EvaluateUntrained == [test_loss |-> 1, test_accuracy |-> 0]

\* Lines 225-226: `x if x else held_out`; the truth value t of x decides.
SuppliedOrHeldOut(x, t, held_out) == IF t = "True" THEN x.v ELSE held_out

\* AbnormalityDetector.evaluate_model(test_cutouts, test_labels).  t_cutouts
\* and t_labels are the outcomes of the two truth tests.
EvaluateModel(tc, tl, t_cutouts, t_labels) ==
    /\ phase = "ready"
    /\ LET args == [test_cutouts |-> tc, test_labels |-> tl]
           data == SuppliedOrHeldOut(tc, t_cutouts, test_cutouts)
           labels == SuppliedOrHeldOut(tl, t_labels, test_labels)
           res == ModelEvaluate(data, labels)
       IN  call' =
             IF ~trained
             THEN [op |-> "evaluate_model", args |-> args, error |-> "none",
                   result |-> EvaluateUntrained, invoked |-> <<>>]
             ELSE IF t_cutouts = "ValueError" \/ t_labels = "ValueError"
             THEN [op |-> "evaluate_model", args |-> args, error |-> "ValueError",
                   result |-> <<>>, invoked |-> <<>>]
             ELSE [op |-> "evaluate_model", args |-> args, error |-> "none",
                   result |-> [test_loss |-> res[1], test_accuracy |-> res[2]],
                   invoked |-> <<[method |-> "evaluate", x |-> data, y |-> labels]>>]
    /\ UNCHANGED <<phase, detector, channel_vars, stamp_vars>>

InferenceRefusedMutant(is_trained) == FALSE

\* Lines 276 and 334: `if not self.trained: raise Exception(...)`
InferenceRefused(is_trained) == ~is_trained

\* Line 294: `prediction[0][0] >= accuracy_threshold`, the probability of
\* class index 0 (the first entry of the row).
KeepSpike(prediction_row, accuracy_threshold) ==
    prediction_row[1] >= accuracy_threshold

\* Lines 288-296: the spikes of one channel kept from cutout i on.  Reading
\* spike_cutout.time of an object without that attribute is an AttributeError.
RECURSIVE SpikeLoop(_, _, _, _)
SpikeLoop(cutouts, i, accuracy_threshold, acc) ==
    IF i > Len(cutouts) THEN [error |-> "none"] @@ acc
    ELSE LET spike_cutout == cutouts[i]
             prediction_row == PredictRow(MeanOf(<<spike_cutout.cutout>>))
         IN  IF KeepSpike(prediction_row, accuracy_threshold)
             THEN IF HasAttr(spike_cutout, "time")
                  THEN SpikeLoop(cutouts, i + 1, accuracy_threshold,
                           [times |-> Append(acc.times, spike_cutout.time),
                            t_stop |-> spike_cutout.time])
                  ELSE [error |-> "AttributeError"] @@ acc
             ELSE SpikeLoop(cutouts, i + 1, accuracy_threshold, acc)

\* Lines 287-297: one SpikeTrain(times, t_stop) per channel from position c on.
RECURSIVE SpikeTrains(_, _, _, _)
SpikeTrains(chs, c, accuracy_threshold, new_spiketrains) ==
    IF c > Len(chs) THEN [error |-> "none", trains |-> new_spiketrains]
    ELSE LET r == SpikeLoop(chs[c].cutouts, 1, accuracy_threshold,
                            [times |-> <<>>, t_stop |-> 0])
         IN  IF r.error # "none" THEN [error |-> r.error, trains |-> <<>>]
             ELSE SpikeTrains(chs, c + 1, accuracy_threshold,
                      Append(new_spiketrains, [times |-> r.times, t_stop |-> r.t_stop]))

\* What both inference methods do first (lines 276-283, 334-341): refuse an
\* untrained detector, else run _get_cutouts on the experiment recording,
\* which overwrites num_channels and skipped_channels.
Extraction(counts) ==
    IF InferenceRefused(trained)
    THEN [error |-> "Exception", exp_cutouts |-> <<>>,
          num_channels |-> num_channels, skipped_channels |-> skipped_channels]
    ELSE GetCutouts(counts, extractor_decomposition_parameter)

\* AbnormalityDetector.get_only_neuronal_spikes(exp_data, accuracy_threshold)
GetOnlyNeuronalSpikes(counts, accuracy_threshold) ==
    /\ phase = "ready"
    /\ LET x == Extraction(counts)
           r == IF x.error # "none" THEN [error |-> x.error, trains |-> <<>>]
                ELSE SpikeTrains(x.exp_cutouts, 1, accuracy_threshold, <<>>)
       IN  /\ num_channels' = x.num_channels
           /\ skipped_channels' = x.skipped_channels
           /\ call' = [op |-> "get_only_neuronal_spikes",
                       args |-> [counts |-> counts,
                                 accuracy_threshold |-> accuracy_threshold],
                       error |-> r.error, result |-> r.trains, invoked |-> <<>>,
                       extracted |-> [error |-> x.error, exp_cutouts |-> x.exp_cutouts]]
    /\ UNCHANGED <<phase, extractor_decomposition_parameter, trained, categorized,
                   model, test_cutouts, test_labels, model_size,
                   spontaneous_cutouts, channel_vars, stamp_vars>>

\* Line 352: `for cutout_index, spike_cutout in comp_cutouts` unpacks each
\* SpikeCutout of the component into two names; a SpikeCutout is not
\* iterable, so the first element raises TypeError.
UnpackSpikeCutout(spike_cutout) == "TypeError"

\* Lines 349-360: the components of one channel from position k on.  A
\* component without cutouts has the mean NaN: the classifier's predict
\* raises on it, or the comparison with the threshold is not true and the
\* component adds nothing (nan_outcome).
RECURSIVE ComponentLoop(_, _, _, _, _)
ComponentLoop(chan_cutouts_by_comp, k, accuracy_threshold, nan_outcome, channel_times) ==
    IF k > Len(chan_cutouts_by_comp) THEN [error |-> "none", times |-> channel_times]
    ELSE LET comp_cutouts == chan_cutouts_by_comp[k]
         IN  IF Len(comp_cutouts) > 0
             THEN [error |-> UnpackSpikeCutout(comp_cutouts[1]), times |-> channel_times]
             ELSE IF nan_outcome # "none"
             THEN [error |-> nan_outcome, times |-> channel_times]
             ELSE ComponentLoop(chan_cutouts_by_comp, k + 1, accuracy_threshold,
                                nan_outcome, channel_times)

\* Lines 345-363: one SpikeTrain per channel from position c on; t_stop is
\* the last time appended, 0 for none.
RECURSIVE ComponentTrains(_, _, _, _, _)
ComponentTrains(chs, c, accuracy_threshold, nan_outcome, new_spiketrains) ==
    IF c > Len(chs) THEN [error |-> "none", trains |-> new_spiketrains]
    ELSE LET r == ComponentLoop(GetCutoutsByComponent(chs[c]), 1, accuracy_threshold,
                                nan_outcome, <<>>)
             t_stop == IF r.times = <<>> THEN 0 ELSE r.times[Len(r.times)]
         IN  IF r.error # "none" THEN [error |-> r.error, trains |-> <<>>]
             ELSE ComponentTrains(chs, c + 1, accuracy_threshold, nan_outcome,
                      Append(new_spiketrains, [times |-> r.times, t_stop |-> t_stop]))

\* AbnormalityDetector.get_only_neuronal_components(exp_data, accuracy_threshold)
GetOnlyNeuronalComponents(counts, accuracy_threshold, nan_outcome) ==
    /\ phase = "ready"
    /\ LET x == Extraction(counts)
           r == IF x.error # "none" THEN [error |-> x.error, trains |-> <<>>]
                ELSE ComponentTrains(x.exp_cutouts, 1, accuracy_threshold,
                                     nan_outcome, <<>>)
       IN  /\ num_channels' = x.num_channels
           /\ skipped_channels' = x.skipped_channels
           /\ call' = [op |-> "get_only_neuronal_components",
                       args |-> [counts |-> counts,
                                 accuracy_threshold |-> accuracy_threshold],
                       error |-> r.error, result |-> r.trains, invoked |-> <<>>,
                       extracted |-> [error |-> x.error, exp_cutouts |-> x.exp_cutouts]]
    /\ UNCHANGED <<phase, extractor_decomposition_parameter, trained, categorized,
                   model, test_cutouts, test_labels, model_size,
                   spontaneous_cutouts, channel_vars, stamp_vars>>

\* ------------------------------------------ a stand-alone ChannelSpikeCutout
\* Initial categorization lists given to the constructor.
InitLists == {None} \cup {PyList(r) : r \in CategoryRows}
                    \cup {NdArray(r) : r \in CategoryRows}

\* The cutouts of a channel whose spikes have the component indices comps.
CutoutsOf(comps) ==
    [i \in DOMAIN comps |->
        SpikeCutoutNew(<<RawCutout(0, i - 1), SamplingRate, comps[i]>>).obj]

\* ChannelSpikeCutout(cutouts, num_components, channel_index, cl): made is
\* one outcome of the constructor.  After a raise there is no object.
ChanConstruct(comps, num_components, cl, made) ==
    /\ csc_call.op = "none"
    /\ made \in ChannelSpikeCutoutInit(CutoutsOf(comps), num_components, 0, cl)
    /\ csc' = IF made.error = "none" THEN made.obj ELSE NoChannel
    /\ csc_call' = [op |-> "__init__",
                    args |-> [comps |-> comps, categorization_list |-> cl],
                    error |-> made.error, result |-> <<>>, invoked |-> <<>>]
    /\ UNCHANGED <<phase, detector, call, stamp_vars>>

\* The stand-alone channel object exists: its constructor has returned.
ChannelExists ==
    /\ csc_call.op # "none"
    /\ ~(csc_call.op = "__init__" /\ csc_call.error # "none")

\* csc.categorize(np.array(codes)) on a constructed channel.
ChanCategorize(codes) ==
    /\ ChannelExists
    /\ csc' = Categorize(csc, codes)
    /\ csc_call' = [op |-> "categorize",
                    args |-> [codes |-> codes, was_categorized |-> csc.categorized],
                    error |-> "none", result |-> <<>>, invoked |-> <<>>]
    /\ UNCHANGED <<phase, detector, call, stamp_vars>>

\* csc.get_labeled_cutouts().  The call assigns no attribute.  args.reset
\* tells that the call follows a categorize call that reset a categorized
\* channel.
ChanGetLabeledCutouts ==
    /\ ChannelExists
    /\ LET r == GetLabeledCutouts(csc)
       IN  csc_call' = [op |-> "get_labeled_cutouts",
                        args |-> [reset |-> /\ csc_call.op = "categorize"
                                            /\ csc_call.args.was_categorized
                                            /\ ~csc.categorized],
                        error |-> r.error,
                        result |-> [labels |-> r.labels,
                                    labeled_cutouts |-> r.labeled_cutouts,
                                    size |-> r.size],
                        invoked |-> <<>>]
    /\ UNCHANGED <<csc, phase, detector, call, stamp_vars>>

\* csc.get_cutouts_by_component().  The call assigns no attribute;
\* args.cutouts is the channel's cutouts when it was called.
ChanGetCutoutsByComponent ==
    /\ ChannelExists
    /\ csc_call' = [op |-> "get_cutouts_by_component",
                    args |-> [cutouts |-> csc.cutouts],
                    error |-> "none",
                    result |-> GetCutoutsByComponent(csc),
                    invoked |-> <<>>]
    /\ UNCHANGED <<csc, phase, detector, call, stamp_vars>>

NextChannel ==
    \/ \E num_components \in 0..MaxRank :
         \E comps \in SeqsUpTo(0..(num_components - 1), MaxCutouts), cl \in InitLists :
            \E made \in ChannelSpikeCutoutInit(CutoutsOf(comps), num_components, 0, cl) :
               ChanConstruct(comps, num_components, cl, made)
    \/ \E codes \in SeqsUpTo(Codes, MaxCodes) : ChanCategorize(codes)
    \/ ChanGetLabeledCutouts
    \/ ChanGetCutoutsByComponent

SpecChannel == Init /\ [][NextChannel]_vars

Next ==
    \/ \E counts \in Recordings, rank \in Ranks : Construct(counts, rank)
    \/ \E categorization_list \in CategorizationLists :
           CategorizeSpontaneous(categorization_list)
    \/ \E model_arg \in {"None", "supplied"}, fit_error \in {"none", "FitError"} :
           TrainModel(model_arg, fit_error)
    \/ \E tc \in TestCutoutArgs, tl \in TestLabelArgs :
          \E t_cutouts \in Truthiness(tc, TRUE), t_labels \in Truthiness(tl, FALSE) :
             EvaluateModel(tc, tl, t_cutouts, t_labels)
    \/ \E counts \in Recordings, accuracy_threshold \in Thresholds :
           GetOnlyNeuronalSpikes(counts, accuracy_threshold)
    \/ \E counts \in Recordings, accuracy_threshold \in Thresholds,
          nan_outcome \in {"none", "ValueError"} :
           GetOnlyNeuronalComponents(counts, accuracy_threshold, nan_outcome)

Spec == Init /\ [][Next]_vars

\* ------------------------------------- train_model on given detector fields
\* train_model reads spontaneous_cutouts only.  Here the list is any list of
\* channel objects the cutout module's constructors build (SpikeCutout with
\* its three arguments), laid out as _get_cutouts lays a list out: channel c
\* at position c, every channel with the detector's rank as num_components
\* and either no cutouts (a skipped placeholder) or at least rank of them,
\* each channel never categorized or categorized with one of CategoryRows.
ChannelChoices(rank) ==
    {comps \in SeqsUpTo(0..(rank - 1), MaxCutouts) : Len(comps) = 0 \/ Len(comps) >= rank}
        \X ({None} \cup {NdArray(r) : r \in CategoryRows})

ChannelOf(choice, rank, chan_index) ==
    LET ch == NewChannel(CutoutsOf(choice[1]), rank, chan_index)
    IN  IF choice[2].kind = "None" THEN ch ELSE Categorize(ch, choice[2].v)

ChannelLists(rank) ==
    UNION {{[c \in 1..n |-> ChannelOf(f[c], rank, c - 1)] :
               f \in [1..n -> ChannelChoices(rank)]} : n \in 0..MaxChannels}

InitTrain ==
    /\ phase = "ready"
    /\ extractor_decomposition_parameter \in Ranks
    /\ spontaneous_cutouts \in ChannelLists(extractor_decomposition_parameter)
    /\ num_channels = Len(spontaneous_cutouts)
    /\ skipped_channels =
           SelectSeq([c \in 1..Len(spontaneous_cutouts) |-> c - 1],
                     LAMBDA c : Len(spontaneous_cutouts[c + 1].cutouts) = 0)
    /\ trained = FALSE
    /\ categorized \in BOOLEAN
    /\ model = NoModel
    /\ test_cutouts = <<>>
    /\ test_labels = <<>>
    /\ model_size = 0
    /\ call = NoCall
    /\ csc = NoChannel
    /\ csc_call = NoCall
    /\ spikestamps = <<>>
    /\ other = <<>>
    /\ stamps_call = NoCall

NextTrain ==
    \E model_arg \in {"None", "supplied"}, fit_error \in {"none", "FitError"} :
        TrainModel(model_arg, fit_error)

SpecTrain == InitTrain /\ [][NextTrain]_vars

\* ------------------------------------------------------------- Spikestamps
\* Spikestamps.__init__(num_channels): UserList's empty data, replaced by
\* num_channels empty channels when num_channels (n_channels here) is an int.
SpikestampsInit(n_channels) ==
    IF n_channels.kind = "int" THEN [i \in 1..n_channels.v |-> <<>>] ELSE <<>>

\* Channels (lists of spike times) that go into the first object and into
\* the second one; the times tell the two objects' spikes apart.
SelfItems == {<<>>, <<1>>, <<2, 3>>}
OtherItems == {<<>>, <<4>>, <<5, 6>>}

SpikestampsExtendMutant(data, other_data) ==
    [i \in DOMAIN data |->
        IF i <= Len(other_data) THEN data[i] \o other_data[i] ELSE data[i]]

\* Lines 32-37: extend with another Spikestamps.  The shorter self is padded
\* with empty channels, then channel idx of other is appended to channel idx
\* of self.
SpikestampsExtend(data, other_data) ==
    LET length_diff == Len(other_data) - Len(data)
        padded == IF length_diff > 0
                  THEN data \o [i \in 1..length_diff |-> <<>>]
                  ELSE data
    IN  [i \in DOMAIN padded |->
            IF i <= Len(other_data) THEN padded[i] \o other_data[i] ELSE padded[i]]

\* Line 39: extend with anything else appends its items as new channels.
PlainExtend(data, items) == data \o items

\* No extend call has been made yet: the objects are still being filled.
Filling == stamps_call.op # "extend"

\* self.append(item) / other.append(item), lines 27-28.
StampsAppend(target, item) ==
    /\ Filling
    /\ IF target = "self"
       THEN /\ Len(spikestamps) < MaxSelfChannels
            /\ spikestamps' = Append(spikestamps, item)
            /\ other' = other
       ELSE /\ Len(other) < MaxOtherChannels
            /\ other' = Append(other, item)
            /\ spikestamps' = spikestamps
    /\ stamps_call' = [op |-> "append", args |-> [target |-> target],
                       error |-> "none", result |-> <<>>, invoked |-> <<>>]
    /\ UNCHANGED <<phase, detector, call, channel_vars>>

\* self[index] = item / other[index] = item, lines 21-22; an index past the
\* end is the backing list's IndexError.
StampsSetItem(target, index, item) ==
    /\ Filling
    /\ LET data == IF target = "self" THEN spikestamps ELSE other
           error == IF index < Len(data) THEN "none" ELSE "IndexError"
           set == IF error = "none" THEN [data EXCEPT ![index + 1] = item] ELSE data
       IN  /\ spikestamps' = IF target = "self" THEN set ELSE spikestamps
           /\ other' = IF target = "self" THEN other ELSE set
           /\ stamps_call' = [op |-> "__setitem__", args |-> [target |-> target],
                              error |-> error, result |-> <<>>, invoked |-> <<>>]
    /\ UNCHANGED <<phase, detector, call, channel_vars>>

\* self.extend(arg), lines 30-39: arg is the second Spikestamps object, or a
\* plain list holding the same channels.
StampsExtend(kind) ==
    /\ Filling
    /\ spikestamps' = IF kind = "Spikestamps"
                      THEN SpikestampsExtend(spikestamps, other)
                      ELSE PlainExtend(spikestamps, other)
    /\ other' = other
    /\ stamps_call' = [op |-> "extend",
                       args |-> [kind |-> kind, self_before |-> spikestamps,
                                 other_before |-> other],
                       error |-> "none", result |-> <<>>, invoked |-> <<>>]
    /\ UNCHANGED <<phase, detector, call, channel_vars>>

\* Two Spikestamps objects right after construction.
InitStamps ==
    /\ phase = "new"
    /\ extractor_decomposition_parameter = 0
    /\ trained = FALSE
    /\ categorized = FALSE
    /\ model = NoModel
    /\ skipped_channels = <<>>
    /\ test_cutouts = <<>>
    /\ test_labels = <<>>
    /\ model_size = 0
    /\ num_channels = 0
    /\ spontaneous_cutouts = <<>>
    /\ call = NoCall
    /\ csc = NoChannel
    /\ csc_call = NoCall
    /\ spikestamps \in {SpikestampsInit(n) :
                           n \in {None} \cup {PyInt(k) : k \in 0..MaxSelfChannels}}
    /\ other \in {SpikestampsInit(n) :
                     n \in {None} \cup {PyInt(k) : k \in 0..MaxOtherChannels}}
    /\ stamps_call = NoCall

NextStamps ==
    \/ \E item \in SelfItems : StampsAppend("self", item)
    \/ \E item \in OtherItems : StampsAppend("other", item)
    \/ \E index \in 0..MaxSelfChannels, item \in SelfItems :
           StampsSetItem("self", index, item)
    \/ \E index \in 0..MaxOtherChannels, item \in OtherItems :
           StampsSetItem("other", index, item)
    \/ \E kind \in {"Spikestamps", "list"} : StampsExtend(kind)

SpecStamps == InitStamps /\ [][NextStamps]_vars

\* ================================================================== claims
InferenceOps == {"get_only_neuronal_spikes", "get_only_neuronal_components"}
ExtractionOps == InferenceOps \cup {"__init__"}

\* The last call ran _get_cutouts (it was not refused before it).
ExtractionRan == call.op \in ExtractionOps /\ call.extracted.error # "Exception"

\* The channel indices of a recording, and the spike indices of a channel.
ChannelsOf(counts) == 0..(Len(counts) - 1)
SpikesOf(counts, c) == 0..(counts[c + 1] - 1)

\* The category code of "neuronal", and the probability the softmaxed
\* classifier gives that category for input x.
NeuronalCode == (CHOOSE i \in DOMAIN CATEGORY_NAMES : CATEGORY_NAMES[i] = "neuronal") - 1
NeuronalProbability(x) == PredictRow(x)[NeuronalCode + 1]

\* C1: in a state with trained = FALSE, get_only_neuronal_spikes and
\* get_only_neuronal_components raise the untrained-model error before
\* extraction runs, and the failed call changes no field of the detector.
C1_UntrainedInferenceRefused ==
    [][(phase = "ready" /\ ~trained /\ call'.op \in InferenceOps)
          => /\ call'.error = "Exception"
             /\ call'.extracted.error = "Exception"
             /\ call'.extracted.exp_cutouts = <<>>
             /\ UNCHANGED <<phase, detector>>]_vars

\* An untrained detector has just refused an inference call on a recording
\* whose extraction would have changed num_channels.
C1_Witness ==
    /\ phase = "ready" /\ ~trained
    /\ call.op = "get_only_neuronal_components"
    /\ call.error = "Exception"
    /\ Len(call.args.counts) # num_channels

\* C2: per-spike inference on a trained detector keeps a spike if and only
\* if the probability of the neuronal category (code 1) is at least the
\* threshold, for every spike that has a cutout.
C2_KeepsNeuronalSpikes ==
    (/\ phase = "ready" /\ trained
     /\ call.op = "get_only_neuronal_spikes"
     /\ \E c \in ChannelsOf(call.args.counts) :
           call.args.counts[c + 1] >= extractor_decomposition_parameter)
    => /\ call.error = "none"
       /\ \A c \in ChannelsOf(call.args.counts) :
            call.args.counts[c + 1] >= extractor_decomposition_parameter
            => \A i \in SpikesOf(call.args.counts, c) :
                 (SpikeTime(c, i) \in Range(call.result[c + 1].times))
                 <=> (NeuronalProbability(MeanOf(<<RawCutout(c, i)>>))
                        >= call.args.accuracy_threshold)

\* The waveforms of the spikes of channel c that the extractor puts in
\* component k.
ComponentWaveforms(counts, rank, c, k) ==
    SelectSeq([i \in 1..counts[c + 1] |-> RawCutout(c, i - 1)],
              LAMBDA w : ProjectLabel(rank, w) = k)

\* C3: per-component inference on a trained detector completes and, for
\* every channel and every component with at least one cutout, returns the
\* times of all spikes of the component if the neuronal probability of the
\* component's mean waveform is at least the threshold, and none otherwise.
C3_KeepsNeuronalComponents ==
    (/\ phase = "ready" /\ trained
     /\ call.op = "get_only_neuronal_components"
     /\ \E c \in ChannelsOf(call.args.counts) :
           call.args.counts[c + 1] >= extractor_decomposition_parameter)
    => /\ call.error = "none"
       /\ \A c \in ChannelsOf(call.args.counts) :
            call.args.counts[c + 1] >= extractor_decomposition_parameter
            => \A i \in SpikesOf(call.args.counts, c) :
                 LET rank == extractor_decomposition_parameter
                     k == ProjectLabel(rank, RawCutout(c, i))
                     mean == MeanOf(ComponentWaveforms(call.args.counts, rank, c, k))
                 IN  (SpikeTime(c, i) \in Range(call.result[c + 1].times))
                     <=> (NeuronalProbability(mean) >= call.args.accuracy_threshold)

\* C4: after any cutout extraction the returned list has one
\* ChannelSpikeCutout per channel, entry i with channel_index i; every
\* channel with fewer spikes than the rank is in skipped_channels and has an
\* empty ChannelSpikeCutout; no channel with at least rank spikes is skipped.
C4_SkippedChannelsAligned ==
    (/\ ExtractionRan
     /\ \E c \in ChannelsOf(call.args.counts) :
           call.args.counts[c + 1] < extractor_decomposition_parameter)
    => LET counts == call.args.counts
           rank == extractor_decomposition_parameter
           out == call.extracted.exp_cutouts
       IN  /\ Len(out) = Len(counts)
           /\ \A c \in ChannelsOf(counts) : out[c + 1].channel_index = c
           /\ \A c \in ChannelsOf(counts) :
                counts[c + 1] < rank
                => (c \in Range(skipped_channels) /\ Len(out[c + 1].cutouts) = 0)
           /\ \A c \in ChannelsOf(counts) :
                counts[c + 1] >= rank => c \notin Range(skipped_channels)

\* C5: for every channel with at least rank spikes extraction succeeds and
\* makes one SpikeCutout per detected spike, in spike order, cutout i with
\* the waveform, the extractor's component label and the time of spike i.
C5_OneCutoutPerSpike ==
    ExtractionRan
    => LET counts == call.args.counts
           rank == extractor_decomposition_parameter
           out == call.extracted.exp_cutouts
       IN  \A c \in ChannelsOf(counts) :
             counts[c + 1] >= rank
             => /\ call.extracted.error = "none"
                /\ Len(out[c + 1].cutouts) = counts[c + 1]
                /\ \A i \in SpikesOf(counts, c) :
                     LET spike_cutout == out[c + 1].cutouts[i + 1]
                     IN  /\ spike_cutout.cutout = RawCutout(c, i)
                         /\ spike_cutout.pca_comp_index = ProjectLabel(rank, RawCutout(c, i))
                         /\ HasAttr(spike_cutout, "time")
                         /\ spike_cutout.time = SpikeTime(c, i)

\* The number of cutouts of the channels that are categorized.
CategorizedCutoutCount(chs) ==
    SumSeq([c \in DOMAIN chs |-> IF chs[c].categorized THEN Len(chs[c].cutouts) ELSE 0])

\* k = floor(0.8 * n)
IsFloorOfFourFifths(k, n) == 5 * k <= 4 * n /\ 4 * n < 5 * (k + 1)

CutoutLength == Len(RawCutout(0, 0))

C8_EvaluateBeforeTraining ==
    [][(phase = "ready" /\ ~trained /\ call'.op = "evaluate_model")
          => /\ call'.error = "none"
             /\ call'.result = [test_loss |-> 1, test_accuracy |-> 0]
             /\ call'.invoked = <<>>
             /\ UNCHANGED <<phase, detector>>]_vars

\* An untrained detector has just answered evaluate_model called with test
\* arrays of several elements.
C8_Witness ==
    /\ phase = "ready" /\ ~trained
    /\ call.op = "evaluate_model"
    /\ call.error = "none"
    /\ Len(call.args.test_cutouts.v) = 2
    /\ Len(call.args.test_labels.v) = 2
    /\ call.result.test_loss = 1

\* C9: evaluate_model on a trained detector evaluates the classifier on the
\* supplied test cutouts and labels whenever they are supplied, on the
\* held-out ones only when none are supplied, and returns the classifier's
\* loss and accuracy.
C9_EvaluatesSuppliedData ==
    (phase = "ready" /\ trained /\ call.op = "evaluate_model")
    => LET tc == call.args.test_cutouts
           tl == call.args.test_labels
           data == IF tc.kind # "None" THEN tc.v ELSE test_cutouts
           labels == IF tl.kind # "None" THEN tl.v ELSE test_labels
       IN  /\ call.error = "none"
           /\ Len(call.invoked) = 1
           /\ call.invoked[1].method = "evaluate"
           /\ call.invoked[1].x = data
           /\ call.invoked[1].y = labels
           /\ call.result.test_loss = ModelEvaluate(data, labels)[1]
           /\ call.result.test_accuracy = ModelEvaluate(data, labels)[2]

\* C10: categorize(codes) with fewer codes than num_components leaves
\* categorized = FALSE and categorization_list = num_components zeros,
\* whatever the codes and the state before; with at least num_components
\* codes it sets categorization_list = codes and categorized = TRUE.
C10_CategorizeShortOrAccepted ==
    csc_call.op = "categorize"
    => LET codes == csc_call.args.codes
       IN  IF Len(codes) < csc.num_components
           THEN /\ ~csc.categorized
                /\ Len(csc.categorization_list) = csc.num_components
                /\ \A k \in DOMAIN csc.categorization_list :
                     csc.categorization_list[k] = 0
           ELSE /\ csc.categorized
                /\ csc.categorization_list = codes

\* A categorized channel has just been reset by a too-short list of
\* non-zero codes.
C10_Witness ==
    /\ csc_call.op = "categorize"
    /\ csc_call.args.was_categorized
    /\ Len(csc_call.args.codes) = 1
    /\ csc_call.args.codes[1] = 3
    /\ csc.num_components = 2
    /\ Len(csc.cutouts) = 2
    /\ ~csc.categorized

\* The categorization state of a channel.
CategorizationState(ch) == <<ch.categorized, ch.categorization_list>>

\* C11: a categorize call leaves the categorization state that the same
\* call leaves on a freshly constructed channel, whatever calls came before;
\* repeating the previous call's list changes nothing; and the list held
\* afterwards is the given codes or all zeros, never entries of an earlier
\* list.
C11_CategorizeLastCallOnly ==
    [][csc_call'.op = "categorize"
          => LET codes == csc_call'.args.codes
                 alone == Categorize(NewChannel(csc.cutouts, csc.num_components,
                                                csc.channel_index), codes)
             IN  /\ CategorizationState(csc') = CategorizationState(alone)
                 /\ (csc_call.op = "categorize" /\ csc_call.args.codes = codes)
                    => CategorizationState(csc') = CategorizationState(csc)
                 /\ csc'.categorization_list \in {codes, Zeros(csc.num_components)}]_vars

\* A channel categorized before has just been categorized again with an
\* accepted list of three codes.
C11_Witness ==
    /\ csc_call.op = "categorize"
    /\ csc_call.args.was_categorized
    /\ csc_call.args.codes = <<2, 1, 0>>
    /\ csc.categorization_list = <<2, 1, 0>>
    /\ csc.categorized
    /\ csc.num_components = 2

\* C12: in every state of a constructed channel, categorized = TRUE implies
\* that categorization_list has num_components entries, and categorized =
\* FALSE implies that it has num_components entries, all 0.
C12_CategorizationListInvariant ==
    ChannelExists
    => /\ Len(csc.categorization_list) = csc.num_components
       /\ ~csc.categorized
          => \A k \in DOMAIN csc.categorization_list : csc.categorization_list[k] = 0

\* C13: get_labeled_cutouts on a categorized channel returns one entry per
\* cutout in cutout order: label i is the category of cutout i's component,
\* labeled cutout i is cutout i, and size is the number of cutouts.
C13_LabelPerCutout ==
    (csc_call.op = "get_labeled_cutouts" /\ csc.categorized)
    => /\ csc_call.error = "none"
       /\ csc_call.result.size = Len(csc.cutouts)
       /\ csc_call.result.labeled_cutouts = csc.cutouts
       /\ Len(csc_call.result.labels) = Len(csc.cutouts)
       /\ \A i \in DOMAIN csc.cutouts :
            csc_call.result.labels[i] =
                csc.categorization_list[csc.cutouts[i].pca_comp_index + 1]

\* C14: get_labeled_cutouts on a channel with categorized = FALSE returns
\* no labels, no cutouts and size 0, however many cutouts the channel holds.
C14_UncategorizedGivesNothing ==
    (csc_call.op = "get_labeled_cutouts" /\ ~csc.categorized)
    => /\ csc_call.error = "none"
       /\ csc_call.result.labels = <<>>
       /\ csc_call.result.labeled_cutouts = <<>>
       /\ csc_call.result.size = 0

\* get_labeled_cutouts has just answered on a channel with two cutouts that
\* was categorized and then reset by a too-short categorize call.
C14_Witness ==
    /\ csc_call.op = "get_labeled_cutouts"
    /\ csc_call.args.reset
    /\ ~csc.categorized
    /\ Len(csc.cutouts) = 2
    /\ csc_call.result.size = 0

\* C15: get_cutouts_by_component returns num_components buckets; bucket k
\* holds exactly the cutouts with pca_comp_index = k, in their order in the
\* channel; every cutout is in one bucket; the channel's cutouts are as they
\* were.
C15_BucketsByComponent ==
    csc_call.op = "get_cutouts_by_component"
    => LET buckets == csc_call.result
       IN  /\ Len(buckets) = csc.num_components
           /\ csc.cutouts = csc_call.args.cutouts
           /\ SumSeq([k \in DOMAIN buckets |-> Len(buckets[k])]) = Len(csc.cutouts)
           /\ \A k \in DOMAIN buckets :
                LET members == {i \in DOMAIN csc.cutouts :
                                   csc.cutouts[i].pca_comp_index = k - 1}
                IN  /\ Len(buckets[k]) = Cardinality(members)
                    /\ \E f \in [DOMAIN buckets[k] -> members] :
                         /\ \A i, j \in DOMAIN f : i < j => f[i] < f[j]
                         /\ \A j \in DOMAIN f : buckets[k][j] = csc.cutouts[f[j]]

\* get_cutouts_by_component has just answered on a two-component channel
\* whose two cutouts, of different waveforms, are both of component 0.
C15_Witness ==
    /\ csc_call.op = "get_cutouts_by_component"
    /\ csc.num_components = 2
    /\ Len(csc.cutouts) = 2
    /\ csc.cutouts[1] # csc.cutouts[2]
    /\ csc_call.result = <<csc.cutouts, <<>> >>

\* C16: a.extend(b) for two Spikestamps objects leaves a with
\* max(len(a), len(b)) channels, channel i holding a's spikes of channel i
\* (none if a had no such channel) followed by b's spikes of channel i (none
\* if b has no such channel), and leaves b as it was.
C16_ExtendMergesChannels ==
    (stamps_call.op = "extend" /\ stamps_call.args.kind = "Spikestamps")
    => LET a == stamps_call.args.self_before
           b == stamps_call.args.other_before
           ChannelOr(x, i) == IF i \in DOMAIN x THEN x[i] ELSE <<>>
       IN  /\ Len(spikestamps) = IF Len(a) >= Len(b) THEN Len(a) ELSE Len(b)
           /\ \A i \in DOMAIN spikestamps :
                spikestamps[i] = ChannelOr(a, i) \o ChannelOr(b, i)
           /\ other = b

\* A Spikestamps of 2 channels has just been extended by one of 4 channels:
\* channel 0 holds its own spikes then the other's, channel 3 the other's.
C16_Witness ==
    /\ stamps_call.op = "extend"
    /\ stamps_call.args.kind = "Spikestamps"
    /\ Len(stamps_call.args.self_before) = 2
    /\ Len(other) = 4
    /\ stamps_call.args.self_before[1] = <<2, 3>>
    /\ other[1] = <<5, 6>>
    /\ other[4] = <<4>>
    /\ spikestamps[1] = <<2, 3, 5, 6>>
    /\ spikestamps[4] = <<4>>

\* C17: categorize_spontaneous applies row c of the list to channel c only.
\* A row shorter than the channel's num_components leaves that channel
\* uncategorized, a row long enough becomes that channel's list, channels
\* without a row keep their state, and a list with no more rows than there
\* are channels raises nothing.
C17_RowsApplyPerChannel ==
    [][call'.op = "categorize_spontaneous"
          => LET rows == call'.args.categorization_list
                 before == spontaneous_cutouts
                 after == spontaneous_cutouts'
             IN  /\ Len(after) = Len(before)
                 /\ Len(rows) <= Len(before) => call'.error = "none"
                 /\ \A c \in DOMAIN before :
                      IF c <= Len(rows)
                      THEN /\ after[c].cutouts = before[c].cutouts
                           /\ after[c].num_components = before[c].num_components
                           /\ IF Len(rows[c]) < before[c].num_components
                              THEN /\ ~after[c].categorized
                                   /\ after[c].categorization_list =
                                          Zeros(before[c].num_components)
                              ELSE /\ after[c].categorized
                                   /\ after[c].categorization_list = rows[c]
                      ELSE after[c] = before[c]]_vars

\* categorize_spontaneous has just returned on a two-channel detector of
\* rank 2: the short row left channel 0 uncategorized, channel 1 took its
\* own row.
C17_Witness ==
    /\ call.op = "categorize_spontaneous"
    /\ call.error = "none"
    /\ call.args.categorization_list = << <<1>>, <<3, 2>> >>
    /\ Len(spontaneous_cutouts) = 2
    /\ extractor_decomposition_parameter = 2
    /\ ~spontaneous_cutouts[1].categorized
    /\ spontaneous_cutouts[2].categorized
    /\ spontaneous_cutouts[2].categorization_list = <<3, 2>>

\* C18: whatever is called on a detector, and whether or not the call
\* raises, trained stays TRUE once TRUE and the detector's categorized flag
\* stays TRUE once TRUE.
C18_FlagsOnlyMoveForward ==
    [][(trained => trained') /\ (categorized => categorized')]_vars

\* A call has just raised on a detector that was trained and categorized,
\* and both flags are still set.
C18_Witness ==
    /\ phase = "ready"
    /\ trained
    /\ categorized
    /\ call.op = "categorize_spontaneous"
    /\ call.error = "IndexError"

\* C19: per-spike inference on a trained detector returns one spike-time
\* sequence per channel of the recording, in channel order; a skipped
\* channel's sequence is empty; each sequence's end time is its last kept
\* spike time, 0 if it has none.
C19_OneTrainPerChannel ==
    (phase = "ready" /\ trained /\ call.op = "get_only_neuronal_spikes")
    => LET counts == call.args.counts
       IN  /\ call.error = "none"
           /\ Len(call.result) = Len(counts)
           /\ \A c \in ChannelsOf(counts) :
                LET train == call.result[c + 1]
                IN  /\ counts[c + 1] < extractor_decomposition_parameter
                       => train.times = <<>>
                    /\ train.t_stop = IF train.times = <<>> THEN 0
                                      ELSE train.times[Len(train.times)]

\* C20: an inference call that returns leaves spontaneous_cutouts,
\* skipped_channels, num_channels, trained, model_size and the held-out test
\* data as they were before the call.
C20_InferenceLeavesStateAlone ==
    [][(call'.op \in InferenceOps /\ call'.error = "none")
          => UNCHANGED <<spontaneous_cutouts, skipped_channels, num_channels,
                         trained, model_size, test_cutouts, test_labels>>]_vars

====
